---- MODULE Spec2Model ----
(***************************************************************************)
(* A model of libfprint's FpPrint (src/libfprint/fp-print.c): the print    *)
(* record, the minutiae encoder, the "FP3" binary codec, the bozorth3      *)
(* matcher loop and the equality comparator.                               *)
(*                                                                         *)
(* Pointers are modelled as sequences of length <= 1: NULL is <<>> and a   *)
(* pointer to v is <<v>>.  A GVariant is modelled by its serialised tree,  *)
(* every int32 in it as the 4 bytes that sit in memory, so that the byte   *)
(* order conversions of the codec are computed, not assumed.               *)
(***************************************************************************)
EXTENDS Integers, Sequences, FiniteSets, TLC

VARIABLES host,   \* G_BYTE_ORDER of the build
          print,  \* the FpPrint the caller works on (a pointer)
          other,  \* a second FpPrint: probe, comparand, or deserialize's result
          data,   \* the byte buffer handed around (*data, length), a pointer
          ret,    \* what the last call returned (and what it was given)
          proc,   \* "running", or "aborted" once an assertion or a crash ended it
          nmeta   \* number of metadata setter calls made so far

vars == <<host, print, other, data, ret, proc, nmeta>>

-----------------------------------------------------------------------------
(* Bounds of the model *)

\* The most templates a record is grown to by fpi_print_add_from_image / add_print.
MaxPrints == 2
\* The most metadata setter calls in one behaviour.
MaxMeta == 1
\* The most templates of the gallery in the matcher's specification.
MaxGallery == 3

-----------------------------------------------------------------------------
(* Program constants *)

G_LITTLE_ENDIAN == 1234
G_BIG_ENDIAN == 4321

\* FpPrintType, serialised as an int32
FP_PRINT_UNDEFINED == 0
FP_PRINT_RAW == 1
FP_PRINT_NBIS == 2

\* struct xyt_struct holds arrays of MAX_BOZORTH_MINUTIAE entries
MAX_BOZORTH_MINUTIAE == 200

FP_FINGER_UNKNOWN == 0

G_MININT32 == (-2147483647) - 1

NULL == <<>>
Ptr(v) == <<v>>
Deref(p) == p[1]

-----------------------------------------------------------------------------
(* 32-bit integers and their bytes *)

ByteOf(n, i) == (n \div (256 ^ i)) % 256

\* The 4 bytes of the two's complement int32 v, least significant first.
LEBytes(v) ==
  IF v >= 0
    THEN <<ByteOf(v, 0), ByteOf(v, 1), ByteOf(v, 2), ByteOf(v, 3)>>
    ELSE LET w == -(v + 1)
         IN <<255 - ByteOf(w, 0), 255 - ByteOf(w, 1),
              255 - ByteOf(w, 2), 255 - ByteOf(w, 3)>>

\* The int32 whose little-endian bytes are b.
FromLEBytes(b) ==
  IF b[4] < 128
    THEN b[1] + 256 * b[2] + 65536 * b[3] + 16777216 * b[4]
    ELSE -((255 - b[1]) + 256 * (255 - b[2]) + 65536 * (255 - b[3])
           + 16777216 * (255 - b[4])) - 1

Reverse4(b) == <<b[4], b[3], b[2], b[1]>>

\* The bytes an int32 occupies in the memory of a host of byte order h.
HostBytes(v, h) == IF h = G_LITTLE_ENDIAN THEN LEBytes(v) ELSE Reverse4(LEBytes(v))

\* The int32 a host of byte order h reads from 4 bytes of memory.
FromHostBytes(b, h) ==
  IF h = G_LITTLE_ENDIAN THEN FromLEBytes(b) ELSE FromLEBytes(Reverse4(b))

GUINT32_SWAP_LE_BE(v) == FromLEBytes(Reverse4(LEBytes(v)))

\* GINT32_TO_LE on a host of byte order h
GINT32_TO_LE(v, h) == IF h = G_LITTLE_ENDIAN THEN v ELSE GUINT32_SWAP_LE_BE(v)

-----------------------------------------------------------------------------
(* GLib: GDate.  julian_days is a 32-bit field; it is kept here as the      *)
(* int32 with the same bits, so "(guint32) j > 0" reads "j # 0".           *)

\* g_date_new () / g_date_clear: neither representation is valid
ClearedDate == [julian |-> FALSE, julian_days |-> 0]

g_date_valid(d) == d.julian

g_date_valid_julian(j) == j # 0

\* g_return_val_if_fail (g_date_valid_julian (julian_day), NULL)
g_date_new_julian(j) ==
  IF g_date_valid_julian(j) THEN Ptr([julian |-> TRUE, julian_days |-> j]) ELSE NULL

g_date_get_julian(d) == d.julian_days

\* The boxed copy of G_TYPE_DATE (g_value_dup_boxed); NULL stays NULL.
g_date_copy(p) ==
  IF p = NULL THEN NULL
  ELSE IF g_date_valid(Deref(p)) THEN g_date_new_julian(g_date_get_julian(Deref(p)))
  ELSE p

-----------------------------------------------------------------------------
(* struct xyt_struct and struct _FpPrint *)

Capacity == 1 .. MAX_BOZORTH_MINUTIAE

\* g_new0 (struct xyt_struct, 1)
ZeroXyt == [nrows |-> 0,
            xcol |-> [i \in Capacity |-> 0],
            ycol |-> [i \in Capacity |-> 0],
            thetacol |-> [i \in Capacity |-> 0]]

\* fp_print_init and the construct properties of g_object_new
NewPrint(driver, device_id, device_stored) ==
  [type |-> FP_PRINT_UNDEFINED,
   driver |-> driver,
   device_id |-> device_id,
   device_stored |-> device_stored,
   image |-> NULL,
   finger |-> FP_FINGER_UNKNOWN,
   username |-> NULL,
   description |-> NULL,
   enroll_date |-> NULL,
   data |-> NULL,
   prints |-> NULL]

\* fp_print_new (device): driver and device-id come from the device
fp_print_new(device) == NewPrint(device.driver, device.device_id, FALSE)

Devices == {[driver |-> "drvA", device_id |-> "dev0"],
            [driver |-> "drvB", device_id |-> "dev0"]}

-----------------------------------------------------------------------------
(* fpi_print_set_type *)

\* fpi_print_set_type without its g_return_if_fail
fpi_print_set_type_again(p, type) ==
  [p EXCEPT !.type = type,
            !.prints = IF type = FP_PRINT_NBIS THEN Ptr(<<>>) ELSE @]

\* g_return_if_fail (print->type == FP_PRINT_UNDEFINED): later calls change nothing
fpi_print_set_type(p, type) ==
  IF p.type # FP_PRINT_UNDEFINED THEN p
  ELSE [p EXCEPT !.type = type,
                 !.prints = IF type = FP_PRINT_NBIS THEN Ptr(<<>>) ELSE @]

-----------------------------------------------------------------------------
(* The minutiae encoder *)

Min(a, b) == IF a < b THEN a ELSE b

\* A detected minutia.  x, y, theta are what lfs2nist_minutia_XYT yields for it
\* (the transform itself lives in nbis); reliability is in thousandths.
Minutia(x, y, theta, reliability) ==
  [x |-> x, y |-> y, theta |-> theta, reliability |-> reliability]

lfs2nist_minutia_XYT(m, bwidth, bheight) == <<m.x, m.y, m.theta>>

\* sround (minutia->reliability * 100.0), for reliability >= 0 in thousandths
sround_percent(reliability) == (reliability + 5) \div 10

\* The comparator of qsort: ascending col[0], then ascending col[1].
sort_x_y(a, b) ==
  IF a[1] < b[1] THEN -1
  ELSE IF a[1] > b[1] THEN 1
  ELSE IF a[2] < b[2] THEN -1
  ELSE IF a[2] > b[2] THEN 1
  ELSE 0

\* Whether row i of c comes before row j in the sorted order that keeps rows
\* comparing equal in their order of arrival
RowBefore(c, i, j) ==
  LET d == sort_x_y(c[i], c[j]) IN d < 0 \/ (d = 0 /\ i < j)

\* The place each row of c takes in the sorted order
RowRanks(c) ==
  [i \in 1 .. Len(c) |-> 1 + Cardinality({j \in 1 .. Len(c) : RowBefore(c, j, i)})]

RowsByRank(c, rank) == [k \in 1 .. Len(c) |-> c[CHOOSE i \in 1 .. Len(c) : rank[i] = k]]

\* c sorted by the comparator, rows comparing equal kept in their order of arrival
SortRows(c) == CHOOSE s \in {RowsByRank(c, rank) : rank \in {RowRanks(c)}} : TRUE

\* The places of the sorted s where a run of two or more equal keys starts
TiedRuns(s) ==
  {a \in 1 .. Len(s) :
     /\ a = 1 \/ sort_x_y(s[a - 1], s[a]) # 0
     /\ a < Len(s) /\ sort_x_y(s[a], s[a + 1]) = 0}

RunLength(s, a) == Cardinality({i \in a .. Len(s) : sort_x_y(s[i], s[a]) = 0})

\* Every order of the sorted s that differs only inside the runs starting in runs
RECURSIVE TieOrders(_, _)
TieOrders(s, runs) ==
  IF runs = {} THEN {s}
  ELSE LET a == CHOOSE x \in runs : \A y \in runs : x <= y
           k == RunLength(s, a)
       IN UNION {TieOrders([i \in 1 .. Len(s) |->
                              IF i >= a /\ i < a + k THEN s[a - 1 + p[i - a + 1]] ELSE s[i]],
                           runs \ {a}) :
                 p \in Permutations(1 .. k)}

\* qsort (c, nmin, ..., sort_x_y): sorted by the comparator; the order of rows
\* that compare equal is unspecified, so every such order is an outcome.
qsort(c) == UNION {TieOrders(s, TiedRuns(s)) : s \in {SortRows(c)}}

\* int nmin = min (minutiae->num, MAX_BOZORTH_MINUTIAE)
NminUncapped(num) == num
Nmin(num) == Min(num, MAX_BOZORTH_MINUTIAE)

\* The rows c[0 .. nmin-1] built by the first loop
MinutiaeRows(list, nmin, bwidth, bheight) ==
  [i \in 1 .. nmin |->
     LET t == lfs2nist_minutia_XYT(list[i], bwidth, bheight)
     IN <<t[1], t[2], IF t[3] > 180 THEN t[3] - 360 ELSE t[3],
          sround_percent(list[i].reliability)>>]

\* The second loop: the sorted rows c copied into the zeroed *xyt
XytOfRows(c, nmin) ==
  [nrows |-> nmin,
   xcol |-> [i \in Capacity |-> IF i <= nmin THEN c[i][1] ELSE 0],
   ycol |-> [i \in Capacity |-> IF i <= nmin THEN c[i][2] ELSE 0],
   thetacol |-> [i \in Capacity |-> IF i <= nmin THEN c[i][3] ELSE 0]]

\* The templates minutiae_to_xyt can leave in a zeroed *xyt
minutiae_to_xyt(list, bwidth, bheight) ==
  UNION {{XytOfRows(c, nmin) : c \in UNION {qsort(rows) : rows \in {MinutiaeRows(list, nmin, bwidth, bheight)}}} :
         nmin \in {Nmin(Len(list))}}

-----------------------------------------------------------------------------
(* Images handed to the encoder.  An FpImage is known by its identity; its  *)
(* detected minutiae (fp_image_get_minutiae) are looked up from it.         *)

P1 == Minutia(1, 1, 10, 500)
P2 == Minutia(1, 1, 20, 995)
P3 == Minutia(0, 2, 190, 0)
P4 == Minutia(2, 0, 180, 1000)

\* n minutiae with pairwise different x, in an order that is not the sorted one
GenMinutiae(n) ==
  [i \in 1 .. n |-> Minutia((i * 37) % 211, i % 5, (i * 7) % 360, (i * 13) % 1001)]

ImageIds == {"undetected", "empty", "r", "pq", "qp", "rs", "sr", "full", "over"}

ImageMinutiae ==
  [id \in ImageIds |->
     CASE id = "undetected" -> NULL
       [] id = "empty" -> Ptr(<<>>)
       [] id = "r" -> Ptr(<<P3>>)
       [] id = "pq" -> Ptr(<<P1, P2>>)
       [] id = "qp" -> Ptr(<<P2, P1>>)
       [] id = "rs" -> Ptr(<<P4, P3>>)
       [] id = "sr" -> Ptr(<<P3, P4>>)
       [] id = "full" -> Ptr(GenMinutiae(MAX_BOZORTH_MINUTIAE))
       [] id = "over" -> Ptr(GenMinutiae(MAX_BOZORTH_MINUTIAE + 1))]

fp_image_get_minutiae(image) == ImageMinutiae[image]

\* minutiae_to_xyt on each image that has minutiae, computed once
EncodedImage ==
  [id \in ImageIds |->
     IF ImageMinutiae[id] = NULL THEN {}
     ELSE minutiae_to_xyt(Deref(ImageMinutiae[id]), 256, 360)]

G_IO_ERROR_INVALID_DATA == "G_IO_ERROR_INVALID_DATA"

\* fpi_print_add_from_image (print, image, error), image a pointer: the set of
\* its outcomes [ret, error, print]
fpi_print_add_from_image(p, image) ==
  IF p.type # FP_PRINT_NBIS \/ image = NULL
    THEN {[ret |-> FALSE, error |-> Ptr(G_IO_ERROR_INVALID_DATA), print |-> p]}
  ELSE LET minutiae == fp_image_get_minutiae(Deref(image))
       IN IF minutiae = NULL \/ Len(Deref(minutiae)) = 0
            THEN {[ret |-> FALSE, error |-> Ptr(G_IO_ERROR_INVALID_DATA), print |-> p]}
          ELSE {[ret |-> TRUE, error |-> NULL,
                 print |-> [p EXCEPT !.prints = Ptr(Append(Deref(@), xyt)),
                                     !.image = image]] :
                xyt \in EncodedImage[Deref(image)]}

\* fpi_print_add_print (print, add): [aborted, print]
fpi_print_add_print(p, add) ==
  IF p.type # FP_PRINT_NBIS \/ add.type # FP_PRINT_NBIS
    THEN [aborted |-> FALSE, print |-> p]
  ELSE IF Len(Deref(add.prints)) # 1
    THEN [aborted |-> TRUE, print |-> p]
  ELSE [aborted |-> FALSE,
        print |-> [p EXCEPT !.prints = Ptr(Append(Deref(@), Deref(add.prints)[1]))]]

-----------------------------------------------------------------------------
(* GLib: GVariant.  A value is its serialised tree: sig is its type string, *)
(* ints the 4-byte fields it holds itself (an "i" holds one, an "ai" its    *)
(* elements), children its child values.  The framing bytes of the          *)
(* serialised form (offsets, padding) are GLib's and are left out.          *)

GVariant(sig, ints, children) == [sig |-> sig, ints |-> ints, children |-> children]

\* g_variant_new_int32 / the "i" of g_variant_builder_add on a host of order h
g_variant_new_int32(v, h) == GVariant("i", <<HostBytes(v, h)>>, <<>>)

\* g_variant_new_fixed_array (G_VARIANT_TYPE_INT32, col, n, 4): the memory of col
g_variant_new_fixed_array(col, h) ==
  GVariant("ai", [j \in 1 .. Len(col) |-> HostBytes(col[j], h)], <<>>)

g_variant_new_variant(value) == GVariant("v", <<>>, <<value>>)

\* g_variant_byteswap of a value: every multi-byte number in it is swapped
RECURSIVE g_variant_byteswap(_)
g_variant_byteswap(v) ==
  [v EXCEPT !.ints = [j \in DOMAIN v.ints |-> Reverse4(v.ints[j])],
            !.children = [k \in DOMAIN v.children |-> g_variant_byteswap(v.children[k])]]

\* Leaves have no children to ask for: g_variant_n_children asserts on them
IsContainer(v) == v.sig # "i"

\* A value of FP_PRINT_VARIANT_TYPE "(issbymsmsia{sv}v)"; the a{sv} is always
\* empty.  type and julian are 4-byte fields, payload is the value in the "v".
TupleByteswap(t) ==
  [t EXCEPT !.type = Reverse4(@), !.julian = Reverse4(@),
            !.payload = g_variant_byteswap(@)]

-----------------------------------------------------------------------------
(* fp_print_serialize *)

FP3 == <<70, 80, 51>>

\* One template as "(aiaiai)": the first nrows entries of each column, each
\* passed through GINT32_TO_LE and stored as it lies in memory
XytVariant(xyt, h) ==
  GVariant("(aiaiai)", <<>>,
           <<g_variant_new_fixed_array([j \in 1 .. xyt.nrows |-> GINT32_TO_LE(xyt.xcol[j], h)], h),
             g_variant_new_fixed_array([j \in 1 .. xyt.nrows |-> GINT32_TO_LE(xyt.ycol[j], h)], h),
             g_variant_new_fixed_array([j \in 1 .. xyt.nrows |-> GINT32_TO_LE(xyt.thetacol[j], h)], h)>>)

\* The nested "(a(aiaiai))" built for FP_PRINT_NBIS
NbisVariant(prints, h) ==
  GVariant("(a(aiaiai))", <<>>,
           <<GVariant("a(aiaiai)", <<>>, [i \in 1 .. Len(prints) |-> XytVariant(prints[i], h)])>>)

\* The julian day written: the date's, or G_MININT32 without a valid date
SerializedJulian(p) ==
  IF p.enroll_date # NULL /\ g_date_valid(Deref(p.enroll_date))
    THEN g_date_get_julian(Deref(p.enroll_date))
    ELSE G_MININT32

\* The tuple g_variant_builder_end (&builder) yields, in host order
BuiltTuple(p, h) ==
  [type |-> HostBytes(p.type, h),
   driver |-> p.driver,
   device_id |-> p.device_id,
   device_stored |-> p.device_stored,
   finger |-> p.finger % 256,
   username |-> p.username,
   description |-> p.description,
   julian |-> HostBytes(SerializedJulian(p), h),
   payload |-> IF p.type = FP_PRINT_NBIS
                 THEN NbisVariant(Deref(p.prints), h)
                 ELSE g_variant_new_variant(Deref(p.data))]

\* if (G_BYTE_ORDER == G_BIG_ENDIAN) result = g_variant_byteswap (result)
ByteswapOnBigEndian(t, h) == IF h = G_BIG_ENDIAN THEN TupleByteswap(t) ELSE t

\* fp_print_serialize (print, data, length, error) on a host of order h:
\* [crashed, ret, error, data].  No branch sets an error.  For a type other than
\* FP_PRINT_NBIS with no data, g_variant_new_variant (NULL) yields NULL and the
\* builder dereferences it.
fp_print_serialize(p, h) ==
  IF p.type # FP_PRINT_NBIS /\ p.data = NULL
    THEN [crashed |-> TRUE, ret |-> FALSE, error |-> NULL, data |-> NULL]
  ELSE [crashed |-> FALSE, ret |-> TRUE, error |-> NULL,
        data |-> Ptr([head |-> FP3,
                      body |-> Ptr(ByteswapOnBigEndian(BuiltTuple(p, h), h))])]

-----------------------------------------------------------------------------
(* fp_print_set_property and the public setters *)

FP_FINGER_LAST == 10

\* What the case of fp_print_set_property for prop leaves behind.  The case of
\* "fp-data" clears self->description, not self->data, before it assigns.
PropertyAssigned(p, prop, value) ==
  CASE prop = "fp-type" -> fpi_print_set_type(p, value)
    [] prop = "device-stored" -> [p EXCEPT !.device_stored = value]
    [] prop = "finger" -> [p EXCEPT !.finger = value]
    [] prop = "username" -> [p EXCEPT !.username = value]
    [] prop = "description" -> [p EXCEPT !.description = value]
    [] prop = "enroll-date" -> [p EXCEPT !.enroll_date = g_date_copy(value)]
    [] prop = "fp-data" -> [p EXCEPT !.description = NULL, !.data = value]

\* fp_print_set_property: the set of outcomes [crashed, print].  For "fp-data"
\* with a description set, g_variant_unref is run on the description's string:
\* the call may corrupt the heap and go on, or crash.
fp_print_set_property(p, prop, value) ==
  {[crashed |-> FALSE, print |-> PropertyAssigned(p, prop, value)]}
  \cup (IF prop = "fp-data" /\ p.description # NULL
          THEN {[crashed |-> TRUE, print |-> p]}
          ELSE {})

\* g_object_set of the enum property "finger": a value outside FpFinger fails
\* the GParamSpec's validation and the property is left as it was
GObjectSetFinger(p, finger) ==
  IF finger \in FP_FINGER_UNKNOWN .. FP_FINGER_LAST
    THEN PropertyAssigned(p, "finger", finger)
    ELSE p

fp_print_set_finger(p, finger) == [p EXCEPT !.finger = finger]
fp_print_set_username(p, username) == [p EXCEPT !.username = username]
fp_print_set_description(p, description) == [p EXCEPT !.description = description]
\* *print->enroll_date = *enroll_date: the struct is copied as it is
fp_print_set_enroll_date(p, enroll_date) == [p EXCEPT !.enroll_date = enroll_date]
fpi_print_set_device_stored(p, device_stored) == [p EXCEPT !.device_stored = device_stored]

-----------------------------------------------------------------------------
(* fp_print_deserialize *)

\* g_assert (data); g_assert (length > 3): the buffer holds the 3 bytes of the
\* tag and at least one byte of body
LengthAsserted(buf) == buf # NULL /\ Len(Deref(buf).head) = 3 /\ Deref(buf).body # NULL

\* if (xlen != ylen || xlen != thetalen) goto invalid_format
LengthsAlwaysAgree(xlen, ylen, thetalen) == TRUE
LengthsAgree(xlen, ylen, thetalen) == ~(xlen # ylen \/ xlen # thetalen)

\* if (xlen > G_N_ELEMENTS (xyt->xcol)) goto invalid_format
FitsAlways(xlen) == TRUE
FitsCapacity(xlen) == ~(xlen > MAX_BOZORTH_MINUTIAE)

\* The element of a fixed array as the host reads it; past the array, 0
ArrayElement(arr, i, h) == IF i <= Len(arr.ints) THEN FromHostBytes(arr.ints[i], h) ELSE 0

\* The three memcpy into an xyt that was allocated without being cleared
XytFromVariantStale(v, h) ==
  LET xlen == Len(v.children[1].ints)
  IN [nrows |-> xlen,
      xcol |-> [i \in Capacity |-> IF i <= xlen THEN ArrayElement(v.children[1], i, h) ELSE -1],
      ycol |-> [i \in Capacity |-> IF i <= xlen THEN ArrayElement(v.children[2], i, h) ELSE -1],
      thetacol |-> [i \in Capacity |-> IF i <= xlen THEN ArrayElement(v.children[3], i, h) ELSE -1]]

\* xyt->nrows = xlen and the three memcpy of xlen elements into the zeroed xyt
XytFromVariant(v, h) ==
  LET xlen == Len(v.children[1].ints)
  IN [nrows |-> xlen,
      xcol |-> [i \in Capacity |-> IF i <= xlen THEN ArrayElement(v.children[1], i, h) ELSE 0],
      ycol |-> [i \in Capacity |-> IF i <= xlen THEN ArrayElement(v.children[2], i, h) ELSE 0],
      thetacol |-> [i \in Capacity |-> IF i <= xlen THEN ArrayElement(v.children[3], i, h) ELSE 0]]

\* Whether the loop leaves through invalid_format at child v
XytRejected(v) ==
  LET xlen == Len(v.children[1].ints)
      ylen == Len(v.children[2].ints)
      thetalen == Len(v.children[3].ints)
  IN ~LengthsAgree(xlen, ylen, thetalen) \/ ~FitsCapacity(xlen)

\* The 1-based index of the first child the loop rejects, or 0
FirstRejected(children) ==
  LET bad == {i \in 1 .. Len(children) : XytRejected(children[i])}
  IN IF bad = {} THEN 0 ELSE CHOOSE i \in bad : \A j \in bad : i <= j

\* The g_object_set of the metadata at the end
WithMetadata(p, finger, username, description, julian_date) ==
  LET p1 == GObjectSetFinger(p, finger)
      p2 == PropertyAssigned(p1, "username", username)
      p3 == PropertyAssigned(p2, "description", description)
  IN PropertyAssigned(p3, "enroll-date", g_date_new_julian(julian_date))

DeserializeAborted == [aborted |-> TRUE, result |-> NULL, error |-> NULL, copied |-> {}]
InvalidFormat(copied) ==
  [aborted |-> FALSE, result |-> NULL, error |-> Ptr(G_IO_ERROR_INVALID_DATA), copied |-> copied]
Deserialized(p, copied) ==
  [aborted |-> FALSE, result |-> Ptr(p), error |-> NULL, copied |-> copied]

\* The body of fp_print_deserialize from "g_variant_get (value, ...)" on: value is
\* the tuple in host order.  copied is the set of lengths memcpy was run with.
DeserializeValue(value, h) ==
  LET type == FromHostBytes(value.type, h)
      julian_date == FromHostBytes(value.julian, h)
      print_data == value.payload
      fresh == NewPrint(value.driver, value.device_id, value.device_stored)
  IN IF type = FP_PRINT_NBIS
       THEN IF ~IsContainer(print_data) \/ Len(print_data.children) = 0
              THEN DeserializeAborted
            ELSE IF print_data.children[1].sig # "a(aiaiai)"
              THEN DeserializeAborted
            ELSE LET children == print_data.children[1].children
                     k == FirstRejected(children)
                     n == IF k = 0 THEN Len(children) ELSE k - 1
                     lens == {Len(children[i].children[1].ints) : i \in 1 .. n}
                     nbis == fpi_print_set_type(fresh, FP_PRINT_NBIS)
                 IN IF k # 0 THEN InvalidFormat(lens)
                    ELSE Deserialized(
                           WithMetadata([nbis EXCEPT !.prints =
                                           Ptr([i \in 1 .. n |-> XytFromVariant(children[i], h)])],
                                        value.finger, value.username, value.description,
                                        julian_date),
                           lens)
     ELSE IF type = FP_PRINT_RAW
       THEN IF ~IsContainer(print_data) \/ Len(print_data.children) = 0
              THEN DeserializeAborted
            ELSE Deserialized(
                   WithMetadata(PropertyAssigned(PropertyAssigned(fresh, "fp-type", type),
                                                 "fp-data", Ptr(print_data.children[1])),
                                value.finger, value.username, value.description, julian_date),
                   {})
     ELSE InvalidFormat({})

\* fp_print_deserialize (data, length, error) on a host of order h:
\* [aborted, result, error, copied].  g_variant_new_from_data returns a value for
\* any bytes, so its NULL check never leaves.
fp_print_deserialize(buf, h) ==
  IF ~LengthAsserted(buf) THEN DeserializeAborted
  ELSE IF Deref(buf).head # FP3 THEN InvalidFormat({})
  ELSE DeserializeValue(ByteswapOnBigEndian(Deref(Deref(buf).body), h), h)

-----------------------------------------------------------------------------
(* fpi_print_bz3_match and fp_print_equal *)

FP_DEVICE_ERROR_NOT_SUPPORTED == "FP_DEVICE_ERROR_NOT_SUPPORTED"
FP_DEVICE_ERROR_GENERAL == "FP_DEVICE_ERROR_GENERAL"

\* if (print->prints->len != 1)
ProbeLenAtMostOne(len) == len > 1
ProbeLenRejected(len) == len # 1

\* if (score >= bz3_threshold)
ScoreAbove(score, bz3_threshold) == score > bz3_threshold
ScoreQualifies(score, bz3_threshold) == score >= bz3_threshold

\* fpi_print_bz3_match (template, print, bz3_threshold, error): [result, error,
\* scored].  bozorth_to_gallery is nbis's: score gives, for the probe at hand, the
\* score of each gallery template.  scored counts the calls to bozorth_to_gallery.
fpi_print_bz3_match(template, probe, bz3_threshold, score) ==
  IF template.type # FP_PRINT_NBIS \/ probe.type # FP_PRINT_NBIS
    THEN [result |-> "FPI_MATCH_ERROR", error |-> Ptr(FP_DEVICE_ERROR_NOT_SUPPORTED), scored |-> 0]
  ELSE IF ProbeLenRejected(Len(Deref(probe.prints)))
    THEN [result |-> "FPI_MATCH_ERROR", error |-> Ptr(FP_DEVICE_ERROR_GENERAL), scored |-> 0]
  ELSE LET gallery == Deref(template.prints)
           hits == {i \in 1 .. Len(gallery) : ScoreQualifies(score[gallery[i]], bz3_threshold)}
       IN IF hits # {}
            THEN [result |-> "FPI_MATCH_SUCCESS", error |-> NULL,
                  scored |-> CHOOSE i \in hits : \A j \in hits : i <= j]
            ELSE [result |-> "FPI_MATCH_FAIL", error |-> NULL, scored |-> Len(gallery)]

\* g_variant_equal (one, two): g_return_val_if_fail (one != NULL && two != NULL, FALSE)
g_variant_equal(one, two) == one # NULL /\ two # NULL /\ Deref(one) = Deref(two)

\* memcmp (a, b, sizeof (struct xyt_struct)) != 0: the whole struct, nrows and
\* the three arrays to their full capacity
XytDiffer(a, b) == a # b

\* fp_print_equal (self, other)
fp_print_equal(self, oth) ==
  IF self.type = FP_PRINT_UNDEFINED \/ oth.type = FP_PRINT_UNDEFINED THEN FALSE
  ELSE IF self.type # oth.type THEN FALSE
  ELSE IF self.driver # oth.driver THEN FALSE
  ELSE IF self.device_id # oth.device_id THEN FALSE
  ELSE IF self.type = FP_PRINT_RAW THEN g_variant_equal(self.data, oth.data)
  ELSE /\ Len(Deref(self.prints)) = Len(Deref(oth.prints))
       /\ \A i \in 1 .. Len(Deref(self.prints)) :
            ~XytDiffer(Deref(self.prints)[i], Deref(oth.prints)[i])

-----------------------------------------------------------------------------
(* The state machine *)

Slots == {"print", "other"}
Get(s) == IF s = "print" THEN print ELSE other
Put(s, v) == IF s = "print" THEN print' = Ptr(v) /\ UNCHANGED other
                            ELSE other' = Ptr(v) /\ UNCHANGED print

NoCall == [call |-> "none"]

Init ==
  /\ host \in {G_LITTLE_ENDIAN, G_BIG_ENDIAN}
  /\ print = Ptr(fp_print_new([driver |-> "drvA", device_id |-> "dev0"]))
  /\ other \in {Ptr(fp_print_new(d)) : d \in Devices}
  /\ data = NULL
  /\ ret = NoCall
  /\ proc = "running"
  /\ nmeta = 0

NumPrints(p) == IF p.prints = NULL THEN 0 ELSE Len(Deref(p.prints))

SetType(s, type) ==
  /\ proc = "running"
  /\ Put(s, fpi_print_set_type(Deref(Get(s)), type))
  /\ ret' = [call |-> "set_type", slot |-> s, type |-> type]
  /\ UNCHANGED <<host, data, proc, nmeta>>

AddFromImage(s, image, limit) ==
  /\ proc = "running"
  /\ NumPrints(Deref(Get(s))) < limit
  /\ \E o \in fpi_print_add_from_image(Deref(Get(s)), image) :
       /\ Put(s, o.print)
       /\ ret' = [call |-> "add_from_image", slot |-> s, image |-> image,
                  ret |-> o.ret, error |-> o.error]
  /\ UNCHANGED <<host, data, proc, nmeta>>

AddPrint(s, t) ==
  /\ proc = "running"
  /\ s # t
  /\ NumPrints(Deref(Get(s))) < MaxPrints
  /\ LET o == fpi_print_add_print(Deref(Get(s)), Deref(Get(t)))
     IN /\ Put(s, o.print)
        /\ proc' = IF o.aborted THEN "aborted" ELSE "running"
        /\ ret' = [call |-> "add_print", slot |-> s]
  /\ UNCHANGED <<host, data, nmeta>>

\* The "fp-data" property set on the print (g_object_set), to a variant the
\* driver built on this host
SetData(s, value) ==
  /\ proc = "running"
  /\ \E o \in fp_print_set_property(Deref(Get(s)), "fp-data", value) :
       /\ Put(s, o.print)
       /\ proc' = IF o.crashed THEN "aborted" ELSE "running"
  /\ ret' = [call |-> "set_data", slot |-> s]
  /\ UNCHANGED <<host, data, nmeta>>

\* One of the public metadata setters, on the print
SetMetadata(field, value) ==
  /\ proc = "running"
  /\ nmeta < MaxMeta
  /\ nmeta' = nmeta + 1
  /\ print' = Ptr(CASE field = "finger" -> fp_print_set_finger(Deref(print), value)
                    [] field = "username" -> fp_print_set_username(Deref(print), value)
                    [] field = "description" -> fp_print_set_description(Deref(print), value)
                    [] field = "enroll_date" -> fp_print_set_enroll_date(Deref(print), value)
                    [] field = "device_stored" -> fpi_print_set_device_stored(Deref(print), value))
  /\ ret' = [call |-> "set_metadata", field |-> field]
  /\ UNCHANGED <<host, other, data, proc>>

Serialize(s) ==
  /\ proc = "running"
  /\ LET o == fp_print_serialize(Deref(Get(s)), host)
     IN /\ proc' = IF o.crashed THEN "aborted" ELSE "running"
        /\ data' = o.data
        /\ ret' = [call |-> "serialize", slot |-> s, ret |-> o.ret, error |-> o.error]
  /\ UNCHANGED <<host, print, other, nmeta>>

\* Bytes that come from storage rather than from fp_print_serialize
LoadBuffer(buf) ==
  /\ proc = "running"
  /\ data' = buf
  /\ ret' = [call |-> "load"]
  /\ UNCHANGED <<host, print, other, proc, nmeta>>

\* fp_print_deserialize on the buffer; the record returned becomes other
Deserialize ==
  /\ proc = "running"
  /\ LET o == fp_print_deserialize(data, host)
     IN /\ proc' = IF o.aborted THEN "aborted" ELSE "running"
        /\ other' = IF o.result # NULL THEN o.result ELSE other
        /\ ret' = [call |-> "deserialize", returned |-> o.result # NULL,
                   error |-> o.error, copied |-> o.copied]
  /\ UNCHANGED <<host, print, data, nmeta>>

Match(s, t, bz3_threshold, score) ==
  /\ proc = "running"
  /\ LET o == fpi_print_bz3_match(Deref(Get(s)), Deref(Get(t)), bz3_threshold, score)
     IN ret' = [call |-> "match", template |-> s, probe |-> t,
                bz3_threshold |-> bz3_threshold, score |-> score,
                result |-> o.result, error |-> o.error, scored |-> o.scored]
  /\ UNCHANGED <<host, print, other, data, proc, nmeta>>

Equal(s, t) ==
  /\ proc = "running"
  /\ ret' = [call |-> "equal", self |-> s, other |-> t,
             ret |-> fp_print_equal(Deref(Get(s)), Deref(Get(t)))]
  /\ UNCHANGED <<host, print, other, data, proc, nmeta>>

PrintTypes == {FP_PRINT_UNDEFINED, FP_PRINT_RAW, FP_PRINT_NBIS}

ImagePointers(ids) == {Ptr(id) : id \in ids}

-----------------------------------------------------------------------------
(* The encoder: records grown from images and from each other *)

InitEncoder == Init /\ host = G_LITTLE_ENDIAN /\ Deref(other).driver = "drvA"

NextEncoder ==
  \/ \E s \in Slots, type \in PrintTypes : SetType(s, type)
  \/ \E image \in {NULL} \cup ImagePointers(ImageIds) : AddFromImage("print", image, MaxPrints)
  \/ AddFromImage("other", Ptr("r"), MaxPrints)
  \/ AddPrint("print", "other")

SpecEncoder == InitEncoder /\ [][NextEncoder]_vars

-----------------------------------------------------------------------------
(* The codec: a record is built, serialized, and the bytes are deserialized; *)
(* or bytes from storage are deserialized.                                   *)

\* Buffers as they lie in a file: every number little-endian
FileArray(col) == GVariant("ai", [j \in 1 .. Len(col) |-> LEBytes(col[j])], <<>>)
FileXyt(x, y, theta) == GVariant("(aiaiai)", <<>>, <<FileArray(x), FileArray(y), FileArray(theta)>>)
FileNbis(xyts) == GVariant("(a(aiaiai))", <<>>, <<GVariant("a(aiaiai)", <<>>, xyts)>>)
FileRaw(v) == g_variant_new_variant(GVariant("i", <<LEBytes(v)>>, <<>>))
FileBuffer(head, type, payload) ==
  Ptr([head |-> head,
       body |-> Ptr([type |-> LEBytes(type), driver |-> "drvA", device_id |-> "dev0",
                     device_stored |-> FALSE, finger |-> 1, username |-> NULL,
                     description |-> Ptr("stored"), julian |-> LEBytes(738000),
                     payload |-> payload])])

GoodXyt == FileXyt(<<3, 4>>, <<5, 6>>, <<-90, 180>>)
OverXyt ==
  FileXyt([i \in 1 .. MAX_BOZORTH_MINUTIAE + 1 |-> i],
          [i \in 1 .. MAX_BOZORTH_MINUTIAE + 1 |-> i],
          [i \in 1 .. MAX_BOZORTH_MINUTIAE + 1 |-> 0])
\* A template whose arrays agree in length and whose theta is no angle of the
\* encoder's range
WideThetaXyt == FileXyt(<<1>>, <<2>>, <<270>>)

StoredBuffers ==
  {Ptr([head |-> <<>>, body |-> NULL]),
   Ptr([head |-> <<70, 80>>, body |-> NULL]),
   Ptr([head |-> FP3, body |-> NULL]),
   FileBuffer(<<70, 80, 50>>, FP_PRINT_NBIS, FileNbis(<<GoodXyt>>)),
   FileBuffer(FP3, FP_PRINT_NBIS, FileNbis(<<GoodXyt>>)),
   FileBuffer(FP3, FP_PRINT_NBIS, FileNbis(<<FileXyt(<<1, 2>>, <<3>>, <<4, 5>>)>>)),
   FileBuffer(FP3, FP_PRINT_NBIS, FileNbis(<<GoodXyt, FileXyt(<<1>>, <<2>>, <<>>)>>)),
   FileBuffer(FP3, FP_PRINT_NBIS, FileNbis(<<OverXyt>>)),
   FileBuffer(FP3, FP_PRINT_NBIS, FileNbis(<<GoodXyt, OverXyt>>)),
   FileBuffer(FP3, FP_PRINT_NBIS, FileNbis(<<WideThetaXyt>>)),
   FileBuffer(FP3, FP_PRINT_NBIS, FileRaw(7)),
   FileBuffer(FP3, FP_PRINT_RAW, FileRaw(7)),
   FileBuffer(FP3, FP_PRINT_UNDEFINED, FileRaw(7))}

\* The variants a driver hands to "fp-data"
DataValues == {NULL, Ptr(g_variant_new_int32(258, host))}

MetadataValues ==
  [finger |-> {3},
   username |-> {Ptr("alice")},
   description |-> {Ptr("left index")},
   enroll_date |-> {Ptr(ClearedDate), g_date_new_julian(738000)},
   device_stored |-> {TRUE}]

InitCodec == Init /\ Deref(other).driver = "drvA"

NextCodec ==
  \/ data = NULL /\ \E type \in PrintTypes : SetType("print", type)
  \/ data = NULL /\ \E image \in ImagePointers({"r", "full"}) : AddFromImage("print", image, MaxPrints)
  \/ data = NULL /\ \E value \in DataValues : SetData("print", value)
  \/ data = NULL /\ \E field \in DOMAIN MetadataValues :
                      \E value \in MetadataValues[field] : SetMetadata(field, value)
  \/ data = NULL /\ Serialize("print")
  \/ ret = NoCall /\ \E buf \in StoredBuffers : LoadBuffer(buf)
  \/ data # NULL /\ ret.call \in {"serialize", "load"} /\ Deserialize

SpecCodec == InitCodec /\ [][NextCodec]_vars

-----------------------------------------------------------------------------
(* Matching and comparing: print is the gallery, other the probe *)

Thresholds == {40}
Scores == {39, 40}

GalleryTemplates(p) ==
  IF p.type = FP_PRINT_NBIS THEN {Deref(p.prints)[i] : i \in 1 .. Len(Deref(p.prints))} ELSE {}

InitMatch == Init /\ host = G_LITTLE_ENDIAN

NextMatch ==
  \/ \E s \in Slots, type \in PrintTypes : SetType(s, type)
  \/ \E image \in ImagePointers({"r", "rs"}) : AddFromImage("print", image, MaxGallery)
  \/ \E image \in ImagePointers({"r", "rs"}) : AddFromImage("other", image, MaxPrints)
  \/ \E bz3_threshold \in Thresholds :
       \E score \in [GalleryTemplates(Deref(print)) -> Scores] :
         Match("print", "other", bz3_threshold, score)
  \/ \E s \in Slots, t \in Slots : Equal(s, t)

SpecMatch == InitMatch /\ [][NextMatch]_vars

-----------------------------------------------------------------------------
(* Templates from every source: images, other records and stored bytes, *)
(* compared with fp_print_equal                                         *)

InitTemplates == Init /\ Deref(other).driver = "drvA"

NextTemplates ==
  \/ \E s \in Slots : SetType(s, FP_PRINT_NBIS)
  \/ \E image \in ImagePointers({"r", "over"}) : AddFromImage("print", image, MaxPrints)
  \/ AddFromImage("other", Ptr("pq"), 1)
  \/ AddPrint("print", "other")
  \/ data = NULL /\ Serialize("print")
  \/ data = NULL /\ \E buf \in StoredBuffers : LoadBuffer(buf)
  \/ data # NULL /\ ret.call \in {"serialize", "load"} /\ Deserialize
  \/ Equal("print", "other")

SpecTemplates == InitTemplates /\ [][NextTemplates]_vars

-----------------------------------------------------------------------------
(* Properties of the encoder (SpecEncoder) *)

\* The record the last call worked on
Called == Deref(Get(ret.slot))

LastXyt(p) == Deref(p.prints)[Len(Deref(p.prints))]

\* The rows <<x, y, theta>> a template holds in its first nrows places
XytRows(xyt) == [i \in 1 .. xyt.nrows |-> <<xyt.xcol[i], xyt.ycol[i], xyt.thetacol[i]>>]

\* The first m minutiae of list, transformed: <<x, y, theta>>, theta brought
\* into (-180, 180]
TransformedRows(list, m) ==
  [i \in 1 .. m |-> <<list[i].x, list[i].y,
                      IF list[i].theta > 180 THEN list[i].theta - 360 ELSE list[i].theta>>]

Count(seq, e) == Cardinality({i \in 1 .. Len(seq) : seq[i] = e})

\* a and b hold the same elements, each as often
SameBag(a, b) ==
  /\ Len(a) = Len(b)
  /\ \A i \in 1 .. Len(a) : Count(a, a[i]) = Count(b, a[i])

AscendingXY(rows) ==
  \A i \in 1 .. Len(rows) - 1 :
    \/ rows[i][1] < rows[i + 1][1]
    \/ rows[i][1] = rows[i + 1][1] /\ rows[i][2] <= rows[i + 1][2]

\* C7: fpi_print_add_from_image on a TemplateSet record with n minutiae fails
\* with INVALID_DATA for n = 0 and otherwise appends one template of
\* min(n, 200) rows: the first min(n, 200) minutiae of the input, transformed,
\* in ascending order of x then y.
C7_CapacityBoundary ==
  (/\ ret.call = "add_from_image"
   /\ Called.type = FP_PRINT_NBIS
   /\ ret.image # NULL
   /\ fp_image_get_minutiae(Deref(ret.image)) # NULL)
  => \A list \in {Deref(fp_image_get_minutiae(Deref(ret.image)))} :
       IF Len(list) = 0
         THEN ~ret.ret /\ ret.error = Ptr(G_IO_ERROR_INVALID_DATA)
         ELSE /\ ret.ret
              /\ ret.error = NULL
              /\ \A m \in {IF Len(list) < 200 THEN Len(list) ELSE 200} :
                   /\ LastXyt(Called).nrows = m
                   /\ \A got \in {XytRows(LastXyt(Called))} :
                        \A want \in {TransformedRows(list, m)} :
                          AscendingXY(got) /\ SameBag(got, want)

\* C7 witness: 201 minutiae were encoded and 200 rows are held
C7_Witness ==
  /\ ret.call = "add_from_image"
  /\ ret.ret
  /\ ret.image = Ptr("over")
  /\ LastXyt(Called).nrows = 200

\* C8: the same minutiae presented in another order encode to the same
\* template, also when two of them share x and y and differ in theta.
C8_EncoderDeterministic ==
  (ret.call = "add_from_image" /\ ret.ret)
  => \A list \in {Deref(fp_image_get_minutiae(Deref(ret.image)))} :
       \A id \in ImageIds :
         (/\ fp_image_get_minutiae(id) # NULL
          /\ SameBag(Deref(fp_image_get_minutiae(id)), list))
         => \A xyt \in EncodedImage[id] : xyt = LastXyt(Called)

-----------------------------------------------------------------------------
(* Properties of matching and comparing (SpecMatch) *)

\* The places in the gallery whose score reaches the threshold of the last call
Qualifying ==
  {i \in 1 .. Len(Deref(Deref(print).prints)) :
     ret.score[Deref(Deref(print).prints)[i]] >= ret.bz3_threshold}

\* The call of fpi_print_bz3_match had two FP_PRINT_NBIS records and a probe of
\* exactly one template
MatchWellFormed ==
  /\ ret.call = "match"
  /\ Deref(print).type = FP_PRINT_NBIS
  /\ Deref(other).type = FP_PRINT_NBIS
  /\ Len(Deref(Deref(other).prints)) = 1

\* C5: with a TemplateSet gallery and a TemplateSet probe of one template, the
\* match is FPI_MATCH_SUCCESS exactly when some gallery template scores at
\* least the threshold, scoring stops at the first such template, the match is
\* FPI_MATCH_FAIL when none does (an empty gallery included), and it is never
\* FPI_MATCH_ERROR.
C5_MatchDecides ==
  MatchWellFormed
  => /\ ret.result = "FPI_MATCH_SUCCESS" <=> Qualifying # {}
     /\ Qualifying # {} => /\ ret.scored \in Qualifying
                           /\ \A i \in Qualifying : ret.scored <= i
     /\ Qualifying = {} => /\ ret.result = "FPI_MATCH_FAIL"
                           /\ ret.scored = Len(Deref(Deref(print).prints))
     /\ ret.result # "FPI_MATCH_ERROR"
     /\ ret.error = NULL

\* C5 witness: a gallery of three whose first template scores below the
\* threshold and whose second reaches it exactly; the third is not scored
C5_Witness ==
  /\ MatchWellFormed
  /\ Len(Deref(Deref(print).prints)) = 3
  /\ ret.score[Deref(Deref(print).prints)[1]] < ret.bz3_threshold
  /\ ret.score[Deref(Deref(print).prints)[2]] = ret.bz3_threshold
  /\ ret.result = "FPI_MATCH_SUCCESS"
  /\ ret.scored = 2

\* C6: fpi_print_bz3_match gives FPI_MATCH_ERROR in two cases, and scores
\* nothing in either: a gallery or probe that is not a TemplateSet
\* (FP_DEVICE_ERROR_NOT_SUPPORTED), and a TemplateSet probe whose number of
\* templates is not 1 (FP_DEVICE_ERROR_GENERAL).
C6_MatchErrors ==
  ret.call = "match"
  => /\ (Deref(print).type # FP_PRINT_NBIS \/ Deref(other).type # FP_PRINT_NBIS)
        => /\ ret.result = "FPI_MATCH_ERROR"
           /\ ret.error = Ptr(FP_DEVICE_ERROR_NOT_SUPPORTED)
           /\ ret.scored = 0
     /\ (/\ Deref(print).type = FP_PRINT_NBIS
         /\ Deref(other).type = FP_PRINT_NBIS
         /\ Len(Deref(Deref(other).prints)) # 1)
        => /\ ret.result = "FPI_MATCH_ERROR"
           /\ ret.error = Ptr(FP_DEVICE_ERROR_GENERAL)
           /\ ret.scored = 0

\* C6 witness: a gallery holding templates matched against a TemplateSet probe
\* that holds none
C6_Witness ==
  /\ ret.call = "match"
  /\ Deref(print).type = FP_PRINT_NBIS
  /\ Len(Deref(Deref(print).prints)) > 0
  /\ Deref(other).type = FP_PRINT_NBIS
  /\ Len(Deref(Deref(other).prints)) = 0
  /\ ret.result = "FPI_MATCH_ERROR"
  /\ ret.error = Ptr(FP_DEVICE_ERROR_GENERAL)

\* The same templates, each as often, in another order
Reordered(a, b) == a # b /\ SameBag(a, b)

\* C9: for records whose kind is not Undefined, fp_print_equal (a, a) is TRUE
\* (also for a Raw record whose payload was never set), fp_print_equal (a, b)
\* is fp_print_equal (b, a), and two TemplateSet records holding the same
\* templates in another order are not equal.
C9_EqualReflexiveSymmetric ==
  (/\ ret.call = "equal"
   /\ Deref(Get(ret.self)).type # FP_PRINT_UNDEFINED
   /\ Deref(Get(ret.other)).type # FP_PRINT_UNDEFINED)
  => /\ Get(ret.self) = Get(ret.other) => ret.ret
     /\ ret.ret = fp_print_equal(Deref(Get(ret.other)), Deref(Get(ret.self)))
     /\ (/\ Deref(Get(ret.self)).type = FP_PRINT_NBIS
         /\ Deref(Get(ret.other)).type = FP_PRINT_NBIS
         /\ Reordered(Deref(Deref(Get(ret.self)).prints), Deref(Deref(Get(ret.other)).prints)))
        => ~ret.ret

-----------------------------------------------------------------------------
(* Properties of the codec (SpecCodec) *)

\* The record is one the round trip is promised for: Raw with a payload, or a
\* TemplateSet
ValidlyConstructed(p) ==
  \/ p.type = FP_PRINT_RAW /\ p.data # NULL
  \/ p.type = FP_PRINT_NBIS /\ \A i \in 1 .. Len(Deref(p.prints)) :
                                 Deref(p.prints)[i].nrows <= 200

\* C1: for a Raw record with a payload or a TemplateSet record, on either byte
\* order, deserializing what fp_print_serialize wrote succeeds and returns a
\* record equal under fp_print_equal whose device_stored, finger, username,
\* description and enroll_date are those of the record serialized, an unset
\* field staying unset.
C1_RoundTrip ==
  (/\ ret.call = "deserialize"
   /\ ValidlyConstructed(Deref(print))
   /\ data = fp_print_serialize(Deref(print), host).data)
  => /\ proc = "running"
     /\ ret.returned
     /\ fp_print_equal(Deref(print), Deref(other))
     /\ Deref(other).device_stored = Deref(print).device_stored
     /\ Deref(other).finger = Deref(print).finger
     /\ Deref(other).username = Deref(print).username
     /\ Deref(other).description = Deref(print).description
     /\ Deref(other).enroll_date = Deref(print).enroll_date

\* The buffer has fewer than 4 bytes: the tag is cut, or nothing follows it
BufferShort == Len(Deref(data).head) < 3 \/ Deref(data).body = NULL

BufferWrongMagic == ~BufferShort /\ Deref(data).head # <<70, 80, 51>>

\* The buffer is tagged FP3 and its body is a TemplateSet's
BufferIsNbis ==
  /\ ~BufferShort
  /\ Deref(data).head = <<70, 80, 51>>
  /\ FromLEBytes(Deref(Deref(data).body).type) = FP_PRINT_NBIS
  /\ Deref(Deref(data).body).payload.sig = "(a(aiaiai))"

\* The templates of the buffer's payload
BufferTemplates == Deref(Deref(data).body).payload.children[1].children

TemplateMismatched(v) ==
  \/ Len(v.children[1].ints) # Len(v.children[2].ints)
  \/ Len(v.children[1].ints) # Len(v.children[3].ints)

TemplateInvalid(v) == TemplateMismatched(v) \/ Len(v.children[1].ints) > 200

\* C2: fp_print_deserialize answers a buffer of fewer than 4 bytes, a buffer
\* not tagged "FP3", and a TemplateSet payload with a template whose x, y and
\* theta arrays differ in length, by returning no record and the error
\* G_IO_ERROR_INVALID_DATA, and never by aborting.
C2_DeserializeRejects ==
  (/\ ret.call = "deserialize"
   /\ \/ BufferShort
      \/ BufferWrongMagic
      \/ BufferIsNbis /\ \E i \in 1 .. Len(BufferTemplates) :
                           TemplateMismatched(BufferTemplates[i]))
  => /\ proc = "running"
     /\ ~ret.returned
     /\ ret.error = Ptr(G_IO_ERROR_INVALID_DATA)

\* The record returned holds everything the buffer holds
FullyPopulated(r, b) ==
  /\ r.type = FromLEBytes(b.type)
  /\ r.driver = b.driver
  /\ r.device_id = b.device_id
  /\ r.device_stored = b.device_stored
  /\ r.username = b.username
  /\ r.description = b.description
  /\ r.enroll_date # NULL
  /\ r.type = FP_PRINT_RAW => r.data # NULL
  /\ r.type = FP_PRINT_NBIS =>
       /\ Len(Deref(r.prints)) = Len(b.payload.children[1].children)
       /\ \A i \in 1 .. Len(Deref(r.prints)) :
            Deref(r.prints)[i].nrows = Len(b.payload.children[1].children[i].children[1].ints)

C4_SerializeByKind ==
  ret.call = "serialize"
  => IF Deref(print).type = FP_PRINT_UNDEFINED
       THEN proc = "running" /\ ~ret.ret /\ ret.error # NULL /\ data = NULL
       ELSE proc = "running" /\ ret.ret /\ ret.error = NULL /\ data # NULL

\* A template as it lies in a file whose numbers are all little-endian
LittleEndianXyt(xyt) ==
  GVariant("(aiaiai)", <<>>,
           <<GVariant("ai", [j \in 1 .. xyt.nrows |-> LEBytes(xyt.xcol[j])], <<>>),
             GVariant("ai", [j \in 1 .. xyt.nrows |-> LEBytes(xyt.ycol[j])], <<>>),
             GVariant("ai", [j \in 1 .. xyt.nrows |-> LEBytes(xyt.thetacol[j])], <<>>)>>)

\* The body of the record p of a host of order h with every fixed-width field
\* little-endian
LittleEndianBody(p, h) ==
  [type |-> LEBytes(p.type),
   driver |-> p.driver,
   device_id |-> p.device_id,
   device_stored |-> p.device_stored,
   finger |-> p.finger % 256,
   username |-> p.username,
   description |-> p.description,
   julian |-> LEBytes(SerializedJulian(p)),
   payload |-> IF p.type = FP_PRINT_NBIS
                 THEN GVariant("(a(aiaiai))", <<>>,
                        <<GVariant("a(aiaiai)", <<>>,
                            [i \in 1 .. Len(Deref(p.prints)) |->
                               LittleEndianXyt(Deref(p.prints)[i])])>>)
                 ELSE GVariant("v", <<>>,
                        <<IF h = G_BIG_ENDIAN THEN g_variant_byteswap(Deref(p.data))
                                              ELSE Deref(p.data)>>)]

\* C10: what fp_print_serialize writes does not depend on the host's byte
\* order: every fixed-width field of the body, the x, y and theta arrays of
\* each template included, is little-endian.
C10_EndiannessIndependent ==
  (ret.call = "serialize" /\ ret.ret)
  => Deref(Deref(data).body) = LittleEndianBody(Deref(print), host)

\* The record has no enroll date that g_date_valid accepts
NoValidDate(p) == p.enroll_date = NULL \/ ~g_date_valid(Deref(p.enroll_date))

\* The julian day stored in the buffer, read as the little-endian int32 it is
StoredJulian == FromLEBytes(Deref(Deref(data).body).julian)

\* C11: fp_print_serialize writes INT32_MIN as the julian day of a record
\* without a valid enroll date, and fp_print_deserialize of a buffer whose
\* julian day is INT32_MIN returns a record whose enroll_date is unset.
C11_EnrollDateSentinel ==
  /\ (ret.call = "serialize" /\ ret.ret /\ NoValidDate(Deref(print)))
     => StoredJulian = (-2147483647) - 1
  /\ (ret.call = "deserialize" /\ ret.returned /\ StoredJulian = (-2147483647) - 1)
     => Deref(other).enroll_date = NULL

\* The buffer is tagged FP3 and its type field is FP_PRINT_NBIS
BufferNbisKind ==
  /\ ~BufferShort
  /\ Deref(data).head = <<70, 80, 51>>
  /\ FromLEBytes(Deref(Deref(data).body).type) = FP_PRINT_NBIS

\* C12: fp_print_deserialize of a buffer tagged FP3 whose type is
\* FP_PRINT_NBIS and whose payload is not an array of (x, y, theta) triples of
\* int32 arrays returns no record and the error G_IO_ERROR_INVALID_DATA: the
\* shape is checked before the payload is indexed.
C12_PayloadShapeChecked ==
  (/\ ret.call = "deserialize"
   /\ BufferNbisKind
   /\ Deref(Deref(data).body).payload.sig # "(a(aiaiai))")
  => /\ proc = "running"
     /\ ~ret.returned
     /\ ret.error = Ptr(G_IO_ERROR_INVALID_DATA)

\* The templates a record holds
TemplatesOf(p) ==
  IF p.prints = NULL THEN {} ELSE {Deref(p.prints)[i] : i \in 1 .. Len(Deref(p.prints))}

\* C13: every template of every record got through fpi_print_add_from_image,
\* fpi_print_add_print and fp_print_deserialize has 0 <= nrows <= 200 and each
\* of its first nrows theta in (-180, 180].
C13_TemplateInvariant ==
  \A xyt \in TemplatesOf(Deref(print)) \cup TemplatesOf(Deref(other)) :
    /\ 0 <= xyt.nrows
    /\ xyt.nrows <= 200
    /\ \A j \in 1 .. xyt.nrows : -180 < xyt.thetacol[j] /\ xyt.thetacol[j] <= 180

-----------------------------------------------------------------------------
(* Properties of the record's kind and payload *)

\* The step leaves the kind of the record in slot s alone once it is set, and
\* a call of fpi_print_set_type on it then changes nothing of the record
KindKept(s) ==
  LET before == IF s = "print" THEN Deref(print) ELSE Deref(other)
      after == IF s = "print" THEN Deref(print') ELSE Deref(other')
  IN before.type # FP_PRINT_UNDEFINED
     => /\ after.type = before.type
        /\ (ret'.call = "set_type" /\ ret'.slot = s)
           => /\ after.prints = before.prints
              /\ after = before

\* C14: once fpi_print_set_type has moved a record from FP_PRINT_UNDEFINED to
\* FP_PRINT_RAW or FP_PRINT_NBIS, no operation changes its type, and a later
\* fpi_print_set_type, with the same or another value, leaves the type and the
\* templates as they are.
C14_KindSetOnce == [][\A s \in Slots : KindKept(s)]_vars

\* C14 witness: fpi_print_set_type was called with another type on a record
\* that holds templates, and the record kept its type and its templates
C14_Witness ==
  /\ ret.call = "set_type"
  /\ Called.type = FP_PRINT_NBIS
  /\ ret.type = FP_PRINT_RAW
  /\ NumPrints(Called) > 0

\* The template sequence exists exactly for FP_PRINT_NBIS
TemplatesIffNbis(p) == p.prints # NULL <=> p.type = FP_PRINT_NBIS

\* A raw payload is present exactly for FP_PRINT_RAW
PayloadIffRaw(p) == p.data # NULL <=> p.type = FP_PRINT_RAW

\* C15: at all times a record holds a template sequence exactly when its type
\* is FP_PRINT_NBIS and a raw payload exactly when its type is FP_PRINT_RAW:
\* the fp-data property gives no payload to a record of another type, and a
\* Raw record always has one.
C15_PayloadKindConsistent ==
  \A s \in Slots : TemplatesIffNbis(Deref(Get(s))) /\ PayloadIffRaw(Deref(Get(s)))

-----------------------------------------------------------------------------
(* Properties of the templates' storage (SpecTemplates) *)

\* Every entry of the three arrays past nrows is zero
ZeroPadded(xyt) ==
  \A i \in Capacity :
    i > xyt.nrows => xyt.xcol[i] = 0 /\ xyt.ycol[i] = 0 /\ xyt.thetacol[i] = 0

\* nrows and the first nrows entries of each array agree
SameRows(a, b) ==
  /\ a.nrows = b.nrows
  /\ \A i \in 1 .. a.nrows :
       /\ a.xcol[i] = b.xcol[i]
       /\ a.ycol[i] = b.ycol[i]
       /\ a.thetacol[i] = b.thetacol[i]

\* C16: in every template of every record got through
\* fpi_print_add_from_image, fpi_print_add_print and fp_print_deserialize the
\* x, y and theta entries past nrows are zero, so that the memcmp of the
\* whole struct in fp_print_equal decides as a comparison of nrows and the
\* first nrows entries does.
C16_ZeroPadding ==
  \A all \in {TemplatesOf(Deref(print)) \cup TemplatesOf(Deref(other))} :
    /\ \A xyt \in all : ZeroPadded(xyt)
    /\ \A a \in all, b \in all : ~XytDiffer(a, b) <=> SameRows(a, b)

\* C16 witness: a record read from stored bytes holds a template of fewer than
\* 200 rows, zero past them, and fpi_print_add_print has added that template to
\* a record that holds one encoded from an image
C16_Witness ==
  /\ ret.call = "add_print"
  /\ proc = "running"
  /\ data # NULL
  /\ Deref(other).description = Ptr("stored")
  /\ NumPrints(Deref(print)) = 2
  /\ LastXyt(Deref(print)) = Deref(Deref(other).prints)[1]
  /\ LastXyt(Deref(print)).nrows \in 1 .. 199
  /\ LastXyt(Deref(print)).xcol[200] = 0

-----------------------------------------------------------------------------
(* Properties of the fp-data property (SpecCodec) *)

\* The step, if it sets fp-data on the print, returns and changes nothing but
\* the payload
DataSetterFrame ==
  ret'.call = "set_data"
  => /\ proc' = "running"
     /\ Deref(print').type = Deref(print).type
     /\ Deref(print').driver = Deref(print).driver
     /\ Deref(print').device_id = Deref(print).device_id
     /\ Deref(print').device_stored = Deref(print).device_stored
     /\ Deref(print').finger = Deref(print).finger
     /\ Deref(print').username = Deref(print).username
     /\ Deref(print').description = Deref(print).description
     /\ Deref(print').enroll_date = Deref(print).enroll_date

\* C17: setting the fp-data property changes only the raw payload: type,
\* driver, device_id, device_stored, finger, username, description and
\* enroll_date are after the call what they were before it, whatever metadata
\* was set earlier.
C17_DataSetterFrame == [][DataSetterFrame]_vars

====
